---- MODULE Spec2Model ----
(***************************************************************************)
(* Model of the attribute macro derive_context_err                         *)
(* (context-err-derive/src/lib.rs).                                        *)
(*                                                                         *)
(* One macro invocation walks through the body of derive_context_err:      *)
(*   line 14  parse the argument tokens as AttributeArgs                   *)
(*   line 15  parse the item tokens as syn::Item                           *)
(*   line 17  Args::from_list (darling, derived for struct Args)           *)
(*   line 22  match on the item kind                                       *)
(*   line 32 / 36  derive_for_enum / derive_for_struct, both todo!()       *)
(* The compiler may expand the attribute any number of times; each         *)
(* expansion is one pass idle -> ... -> done -> idle.                      *)
(***************************************************************************)
EXTENDS Integers, Sequences, FiniteSets, TLC

\* Longest argument list that is enumerated.
MaxArgs == 2

VARIABLES
    pc,          \* position inside derive_context_err
    args,        \* the `args` token stream of this invocation
    item,        \* the `item` token stream of this invocation
    attr_args,   \* AttributeArgs parsed at line 14
    cfg,         \* result of Args::from_list at line 17
    output,      \* what the invocation hands back to the compiler
    trace,       \* the steps this invocation has executed, in order
    remembered   \* history: one earlier, completed invocation

vars == <<pc, args, item, attr_args, cfg, output, trace, remembered>>

Range(s) == {s[i] : i \in 1..Len(s)}

----------------------------------------------------------------------------
(* Inputs *)

\* The nested meta items an argument list is built from.
TraitStr == [form |-> "namevalue", name |-> "trait", lit |-> "str", value |-> "Foo"]
TraitInt == [form |-> "namevalue", name |-> "trait", lit |-> "int", value |-> "5"]
OtherStr == [form |-> "namevalue", name |-> "other", lit |-> "str", value |-> "Foo"]
BareLit  == [form |-> "lit", name |-> "", lit |-> "str", value |-> "Foo"]

NestedMeta == {TraitStr, TraitInt, OtherStr, BareLit}

RECURSIVE SeqsUpTo(_, _)
SeqsUpTo(S, n) ==
    IF n = 0 THEN {<<>>}
    ELSE LET shorter == SeqsUpTo(S, n - 1)
         IN  shorter \cup {Append(s, x) : s \in shorter, x \in S}

\* Tokens that are not a comma separated list of meta items.
GarbageArgs == [ok |-> FALSE, metas |-> <<>>]

ArgTokens == {GarbageArgs} \cup {[ok |-> TRUE, metas |-> s] : s \in SeqsUpTo(NestedMeta, MaxArgs)}

\* The annotated item: an enum, a struct, some other item, or tokens that
\* syn cannot parse as an item.
ItemTokens == {"enum", "struct", "fn", "mod", "malformed"}

----------------------------------------------------------------------------
(* Values *)

None == <<>>
Some(x) == <<x>>

\* Between invocations there are no tokens at all.
NoArgs == [ok |-> FALSE, metas |-> <<>>]
NoCfg == [ok |-> FALSE, trait_ |-> None, errors |-> <<>>]
NoOutput == [kind |-> "none", origin |-> "none", msg |-> "", span |-> "none"]
NoInvocation == [args |-> NoArgs, item |-> "none", output |-> NoOutput]

UnsupportedMsg == "this macro only works for structs and enums"

\* parse_macro_input! failure: syn::Error::to_compile_error.
SyntaxError(which) ==
    [kind |-> "diagnostic", origin |-> which, msg |-> "syn", span |-> "tokens"]

\* Err(err) => return TokenStream::from(err.write_errors())
ConfigError(errors) ==
    [kind |-> "diagnostic", origin |-> "config", msg |-> errors[1], span |-> "args"]

UnsupportedItemAtCallSite ==
    [kind |-> "diagnostic", origin |-> "unsupported_item", msg |-> UnsupportedMsg,
     span |-> "call_site"]

UnsupportedItemPanics ==
    [kind |-> "abort", origin |-> "unsupported_item", msg |-> UnsupportedMsg,
     span |-> "none"]

\* quote_spanned! { item.span() => compile_error!("...") }.into()
UnsupportedItemError ==
    [kind |-> "diagnostic", origin |-> "unsupported_item", msg |-> UnsupportedMsg,
     span |-> "item"]

TodoGenerates ==
    [kind |-> "generated", origin |-> "derive", msg |-> "", span |-> "item"]

\* todo!()
Todo ==
    [kind |-> "abort", origin |-> "todo", msg |-> "not yet implemented", span |-> "none"]

----------------------------------------------------------------------------
(* Args::from_list, as derived by darling for                              *)
(*   struct Args { #[darling(rename = "trait")] trait_: Option<String> }   *)

\* FromMeta for Option<String> on one meta item named `trait`.
OptionStringFromMeta(m) ==
    IF m.form = "namevalue" /\ m.lit = "str"
    THEN [ok |-> TRUE, value |-> Some(m.value)]
    ELSE [ok |-> FALSE, value |-> None]

RECURSIVE FromListLoop(_, _, _, _, _)
FromListLoop(items, i, seen, value, errors) ==
    IF i > Len(items) THEN [seen |-> seen, value |-> value, errors |-> errors]
    ELSE LET m == items[i] IN
         IF m.form = "lit"
         THEN FromListLoop(items, i + 1, seen, value, Append(errors, "unsupported_format"))
         ELSE IF m.name = "trait"
         THEN IF seen
              THEN FromListLoop(items, i + 1, seen, value, Append(errors, "duplicate_field"))
              ELSE LET r == OptionStringFromMeta(m) IN
                   IF r.ok
                   THEN FromListLoop(items, i + 1, TRUE, r.value, errors)
                   ELSE FromListLoop(items, i + 1, TRUE, None, Append(errors, "unexpected_type"))
         ELSE FromListLoop(items, i + 1, seen, value, Append(errors, "unknown_field"))

RECURSIVE LenientLoop(_, _, _, _, _)
LenientLoop(items, i, seen, value, errors) ==
    IF i > Len(items) THEN [seen |-> seen, value |-> value, errors |-> errors]
    ELSE LET m == items[i] IN
         IF m.form = "lit"
         THEN LenientLoop(items, i + 1, seen, value, Append(errors, "unsupported_format"))
         ELSE IF m.name = "trait"
         THEN IF seen
              THEN LenientLoop(items, i + 1, seen, value, Append(errors, "duplicate_field"))
              ELSE LET r == OptionStringFromMeta(m) IN
                   LenientLoop(items, i + 1, TRUE, r.value, errors)
         ELSE LenientLoop(items, i + 1, seen, value, errors)

\* A from_list that skips unknown keys and values of the wrong type.
ArgsFromListLenient(items) ==
    LET r == LenientLoop(items, 1, FALSE, None, <<>>)
    IN  [ok |-> r.errors = <<>>, trait_ |-> r.value, errors |-> r.errors]

\* A from_list for a required field: a missing `trait` is an error.
ArgsFromListRequired(items) ==
    LET r == FromListLoop(items, 1, FALSE, None, <<>>)
        errors == IF r.seen THEN r.errors ELSE Append(r.errors, "missing_field")
    IN  [ok |-> errors = <<>>, trait_ |-> r.value, errors |-> errors]

\* A from_list that keeps the configuration of an earlier invocation.
ArgsFromListCached(items) ==
    LET src == IF remembered.args.ok THEN remembered.args.metas ELSE items
        r == FromListLoop(src, 1, FALSE, None, <<>>)
    IN  [ok |-> r.errors = <<>>, trait_ |-> r.value, errors |-> r.errors]

ArgsFromList(items) ==
    LET r == FromListLoop(items, 1, FALSE, None, <<>>)
    IN  [ok |-> r.errors = <<>>, trait_ |-> r.value, errors |-> r.errors]

----------------------------------------------------------------------------
(* match item { Item::Enum => .., Item::Struct => .., _ => .. } *)

ItemArmSwapped(i) ==
    IF i = "enum" THEN "derive_for_struct"
    ELSE IF i = "struct" THEN "derive_for_enum"
    ELSE "unsupported"

ItemArmStructOnly(i) ==
    IF i = "struct" THEN "derive_for_struct" ELSE "unsupported"

ItemArm(i) ==
    IF i = "enum" THEN "derive_for_enum"
    ELSE IF i = "struct" THEN "derive_for_struct"
    ELSE "unsupported"

\* Whether parse_macro_input!(item as Item) succeeds.
ItemParsesAlways(i) == TRUE

ItemParses(i) == i # "malformed"

----------------------------------------------------------------------------
(* The state machine *)

Init ==
    /\ pc = "idle"
    /\ args = NoArgs
    /\ item = "none"
    /\ attr_args = <<>>
    /\ cfg = NoCfg
    /\ output = NoOutput
    /\ trace = <<>>
    /\ remembered = NoInvocation

\* The compiler expands one use of the attribute.
Invoke ==
    /\ pc = "idle"
    /\ \E a \in ArgTokens, i \in ItemTokens :
          /\ args' = a
          /\ item' = i
    /\ pc' = "parse_args"
    /\ UNCHANGED <<attr_args, cfg, output, trace, remembered>>

\* let attr_args = parse_macro_input!(args as AttributeArgs);
ParseArgs ==
    /\ pc = "parse_args"
    /\ trace' = Append(trace, "parse_args")
    /\ IF args.ok
       THEN /\ attr_args' = args.metas
            /\ pc' = "parse_item"
            /\ UNCHANGED output
       ELSE /\ output' = SyntaxError("args_syntax")
            /\ pc' = "done"
            /\ UNCHANGED attr_args
    /\ UNCHANGED <<args, item, cfg, remembered>>

\* let item = parse_macro_input!(item as Item);
ParseItem ==
    /\ pc = "parse_item"
    /\ trace' = Append(trace, "parse_item")
    /\ IF ItemParses(item)
       THEN /\ pc' = "from_list"
            /\ UNCHANGED output
       ELSE /\ output' = SyntaxError("item_syntax")
            /\ pc' = "done"
    /\ UNCHANGED <<args, item, attr_args, cfg, remembered>>

\* let args = match Args::from_list(&attr_args) { Ok(..) => .., Err(..) => return .. };
FromList ==
    /\ pc = "from_list"
    /\ trace' = Append(trace, "from_list")
    /\ cfg' = ArgsFromList(attr_args)
    /\ IF cfg'.ok
       THEN /\ pc' = "classify"
            /\ UNCHANGED output
       ELSE /\ output' = ConfigError(cfg'.errors)
            /\ pc' = "done"
    /\ UNCHANGED <<args, item, attr_args, remembered>>

\* match item { .. }
Classify ==
    /\ pc = "classify"
    /\ trace' = Append(trace, "classify")
    /\ IF ItemArm(item) = "unsupported"
       THEN /\ output' = UnsupportedItemError
            /\ pc' = "done"
       ELSE /\ pc' = ItemArm(item)
            /\ UNCHANGED output
    /\ UNCHANGED <<args, item, attr_args, cfg, remembered>>

DeriveForEnumGenerates ==
    /\ pc = "derive_for_enum"
    /\ trace' = Append(trace, "derive_for_enum")
    /\ output' = TodoGenerates
    /\ pc' = "done"
    /\ UNCHANGED <<args, item, attr_args, cfg, remembered>>

DeriveForStructReturns ==
    /\ pc = "derive_for_struct"
    /\ trace' = Append(trace, "derive_for_struct")
    /\ output' = TodoGenerates
    /\ pc' = "done"
    /\ UNCHANGED <<args, item, attr_args, cfg, remembered>>

\* fn derive_for_enum(args: Args, item: ItemEnum) -> TokenStream { todo!() }
DeriveForEnum ==
    /\ pc = "derive_for_enum"
    /\ trace' = Append(trace, "derive_for_enum")
    /\ output' = Todo
    /\ pc' = "done"
    /\ UNCHANGED <<args, item, attr_args, cfg, remembered>>

\* fn derive_for_struct(args: Args, item: ItemStruct) -> TokenStream { todo!() }
DeriveForStruct ==
    /\ pc = "derive_for_struct"
    /\ trace' = Append(trace, "derive_for_struct")
    /\ output' = Todo
    /\ pc' = "done"
    /\ UNCHANGED <<args, item, attr_args, cfg, remembered>>

\* The invocation is over and every local of it is dropped.
Finish ==
    /\ pc = "done"
    /\ pc' = "idle"
    /\ args' = NoArgs
    /\ item' = "none"
    /\ attr_args' = <<>>
    /\ cfg' = NoCfg
    /\ output' = NoOutput
    /\ trace' = <<>>

\* ... and the history keeps it for comparison with a later invocation,
ReturnRemember ==
    /\ Finish
    /\ remembered' = [args |-> args, item |-> item, output |-> output]

\* ... or keeps the invocation it already holds.
ReturnForget ==
    /\ Finish
    /\ UNCHANGED remembered

Step ==
    \/ ParseArgs
    \/ ParseItem
    \/ FromList
    \/ Classify
    \/ DeriveForEnum
    \/ DeriveForStruct

Next ==
    \/ Invoke
    \/ ParseArgs
    \/ ParseItem
    \/ FromList
    \/ Classify
    \/ DeriveForEnum
    \/ DeriveForStruct
    \/ ReturnRemember
    \/ ReturnForget

Spec == Init /\ [][Next]_vars

\* Termination of one invocation does not depend on the history, so the
\* fair specification leaves the history alone.  The body of
\* derive_context_err is straight-line synchronous code: once entered,
\* every step of it runs.
NextFair ==
    \/ Invoke
    \/ ParseArgs
    \/ ParseItem
    \/ FromList
    \/ Classify
    \/ DeriveForEnum
    \/ DeriveForStruct
    \/ ReturnForget

FairSpec == Init /\ [][NextFair]_vars /\ WF_vars(Step)

----------------------------------------------------------------------------
(* Vocabulary of the properties, stated on the inputs of the invocation *)

Done == pc = "done"

OtherItems == {"fn", "mod"}

DeriveRoutines == {"derive_for_enum", "derive_for_struct"}

\* The argument tokens are a meta list that darling accepts for Args:
\* nothing, or a single trait = "<string>".
ValidConfigArgs ==
    /\ args.ok
    /\ Len(args.metas) <= 1
    /\ \A k \in 1..Len(args.metas) : args.metas[k] = TraitStr

\* The argument tokens are a meta list with an unknown key or with a value
\* of the wrong type for `trait`.
MalformedConfigArgs ==
    /\ args.ok
    /\ \E k \in 1..Len(args.metas) : args.metas[k] \in {OtherStr, TraitInt}

IsUnsupportedItemDiagnostic ==
    /\ output.kind = "diagnostic"
    /\ output.msg = "this macro only works for structs and enums"
    /\ output.span = "item"

----------------------------------------------------------------------------
(* C1 *)

\* C1 as stated: on an item that is neither a struct nor an enum, whatever
\* the arguments are, the output is exactly the unsupported-item diagnostic
\* anchored at the item.
C1_Original ==
    (Done /\ item \in OtherItems) => IsUnsupportedItemDiagnostic

\* C1 amended: on an item that is neither a struct nor an enum, when the
\* arguments parse to a valid Configuration, the output is exactly the
\* diagnostic "this macro only works for structs and enums" anchored at the
\* item's span.
C1_Theorem ==
    (Done /\ item \in OtherItems /\ ValidConfigArgs) => IsUnsupportedItemDiagnostic

C1_Witness ==
    /\ Done
    /\ item = "fn"
    /\ args.metas = <<TraitStr>>
    /\ output.origin = "unsupported_item"

(* C2 *)

\* C2 as stated: on a struct or an enum, whatever the arguments are, the
\* expansion aborts.
C2_Original ==
    (Done /\ item \in {"enum", "struct"}) => output.kind = "abort"

\* C2 amended: on a struct or an enum, when the arguments parse to a valid
\* Configuration, the derivation routine is reached and the expansion aborts
\* instead of returning a diagnostic or generated code.
C2_Theorem ==
    (Done /\ item \in {"enum", "struct"} /\ ValidConfigArgs) =>
        /\ output.kind = "abort"
        /\ Range(trace) \cap DeriveRoutines # {}

C2_Witness ==
    /\ Done
    /\ item = "enum"
    /\ args.ok
    /\ args.metas = <<>>
    /\ output.kind = "abort"

(* C3 *)

\* C3: with an unknown key or a wrong value type in the arguments, for every
\* kind of item, the invocation returns a diagnostic (the configuration
\* diagnostic when the item is an enum, a struct or another item); it never
\* returns generated code, never aborts and never enters a derivation routine.
C3_Theorem ==
    (Done /\ MalformedConfigArgs) =>
        /\ output.kind = "diagnostic"
        /\ item # "malformed" => output.origin = "config"
        /\ Range(trace) \cap DeriveRoutines = {}

C3_Witness ==
    /\ Done
    /\ item = "enum"
    /\ args.ok
    /\ args.metas = <<OtherStr>>
    /\ output.origin = "config"

(* C4 *)

\* C4 as stated: the Configuration is built before the item is parsed, so
\* with arguments that fail configuration parsing and an item of malformed
\* syntax the configuration diagnostic is the one emitted.
C4_Original ==
    (Done /\ MalformedConfigArgs /\ item = "malformed") => output.origin = "config"

\* C4 amended: the steps run in the order parse argument tokens, parse the
\* item, build the Configuration, classify; so with arguments that fail
\* configuration parsing and an item of malformed syntax the item-parsing
\* diagnostic is the one emitted and Args::from_list is never run.
C4_Theorem ==
    /\ \A k \in 1..Len(trace) :
          /\ k = 1 => trace[k] = "parse_args"
          /\ k = 2 => trace[k] = "parse_item"
          /\ k = 3 => trace[k] = "from_list"
          /\ k = 4 => trace[k] = "classify"
    /\ (Done /\ MalformedConfigArgs /\ item = "malformed") =>
          /\ output.origin = "item_syntax"
          /\ "from_list" \notin Range(trace)

C4_Witness ==
    /\ Done
    /\ MalformedConfigArgs
    /\ item = "malformed"
    /\ output.origin = "item_syntax"

(* C5 *)

\* C5: with a valid Configuration, an enum enters derive_for_enum and never
\* derive_for_struct, a struct enters derive_for_struct and never
\* derive_for_enum, and any other item enters neither and yields the
\* unsupported-item diagnostic.
C5_Theorem ==
    (Done /\ ValidConfigArgs /\ item # "malformed") =>
        /\ item = "enum" =>
              /\ "derive_for_enum" \in Range(trace)
              /\ "derive_for_struct" \notin Range(trace)
        /\ item = "struct" =>
              /\ "derive_for_struct" \in Range(trace)
              /\ "derive_for_enum" \notin Range(trace)
        /\ item \notin {"enum", "struct"} =>
              /\ Range(trace) \cap DeriveRoutines = {}
              /\ output.origin = "unsupported_item"

C5_Witness ==
    /\ Done
    /\ ValidConfigArgs
    /\ item = "struct"
    /\ "derive_for_struct" \in Range(trace)

(* C6 *)

\* C6: an invocation without arguments never gets a configuration
\* diagnostic; its Configuration is valid with trait_ = None, it goes on to
\* classification, and it ends exactly as an invocation with
\* trait = "<identifier>" on the same item ends.
C6_Theorem ==
    /\ (args.ok /\ args.metas = <<>>) => output.origin # "config"
    /\ (args.ok /\ args.metas = <<>> /\ "from_list" \in Range(trace)) =>
          /\ cfg.ok
          /\ cfg.trait_ = None
          /\ pc = "classify" \/ "classify" \in Range(trace)
    /\ (/\ Done
        /\ args.ok
        /\ args.metas = <<>>
        /\ remembered.item = item
        /\ remembered.args.ok
        /\ remembered.args.metas = <<TraitStr>>) => output = remembered.output

C6_Witness ==
    /\ Done
    /\ args.ok
    /\ args.metas = <<>>
    /\ cfg.ok
    /\ cfg.trait_ = None
    /\ remembered.item = item
    /\ remembered.args.ok
    /\ remembered.args.metas = <<TraitStr>>
    /\ "classify" \in Range(trace)

(* C7 *)

\* C7: an invocation that ends in a Configuration error (the item parses,
\* the arguments parse but are no valid Configuration) or in an
\* Unsupported-item error (valid Configuration, item neither struct nor
\* enum) returns a diagnostic, does not abort, and has entered no derivation
\* routine.
C7_Theorem ==
    (/\ Done
     /\ \/ output.origin \in {"config", "unsupported_item"}
        \/ args.ok /\ item # "malformed" /\ ~ValidConfigArgs
        \/ ValidConfigArgs /\ item \in OtherItems) =>
        /\ output.kind = "diagnostic"
        /\ output.origin \in {"config", "unsupported_item"}
        /\ Range(trace) \cap DeriveRoutines = {}

C7_Witness ==
    /\ Done
    /\ ValidConfigArgs
    /\ item = "mod"
    /\ output.kind = "diagnostic"
    /\ output.origin = "unsupported_item"

(* C8 *)

\* C8: the outcome of an invocation depends on its own arguments and item
\* only: it equals the outcome of any earlier invocation with the same
\* arguments and item, whatever ran in between and however that ended.
C8_Theorem ==
    (/\ Done
     /\ remembered.item = item
     /\ remembered.args = args) => output = remembered.output

C8_Witness ==
    /\ Done
    /\ remembered.item = item
    /\ remembered.args = args
    /\ item = "struct"
    /\ args.ok
    /\ args.metas = <<TraitStr>>
    /\ output.kind = "abort"

(* C9 *)

\* C9: an invocation aborts exactly when the argument tokens and the item
\* parse, the Configuration is valid and the item is a struct or an enum; in
\* every other case it returns the diagnostic of the first step that failed.
\* A malformed Configuration on a struct or enum yields the configuration
\* diagnostic and no derivation routine is reached.
C9_Theorem ==
    Done =>
        /\ output.kind = "abort" <=>
              (ValidConfigArgs /\ item \in {"enum", "struct"})
        /\ output.kind # "abort" =>
              /\ output.kind = "diagnostic"
              /\ Range(trace) \cap DeriveRoutines = {}
              /\ output.origin =
                    IF ~args.ok THEN "args_syntax"
                    ELSE IF item = "malformed" THEN "item_syntax"
                    ELSE IF ~ValidConfigArgs THEN "config"
                    ELSE "unsupported_item"

C9_Witness ==
    /\ Done
    /\ args.ok
    /\ args.metas = <<TraitInt>>
    /\ item = "struct"
    /\ output.origin = "config"

(* C10 *)

\* C10: every invocation that starts reaches its end, with exactly one
\* outcome set, a diagnostic or an abort; generated source code is never
\* the outcome.
C10_Theorem ==
    /\ [](/\ output.kind # "generated"
          /\ pc = "done" => output.kind \in {"diagnostic", "abort"}
          /\ pc # "done" => output = NoOutput)
    /\ (pc = "parse_args" ~> pc = "done")

C10_Witness ==
    /\ Done
    /\ item = "struct"
    /\ output.kind = "abort"
    /\ remembered = NoInvocation

====
